---------------------------- MODULE Spec2Model ----------------------------
(***************************************************************************)
(* A model of the configurable DES-variant engine (src/des/des_core.py)    *)
(* and the five modes of operation built on it (src/des/modes.py).         *)
(*                                                                         *)
(* Python bytes are sequences of integers 0..255; the bit strings of       *)
(* des_core.py ("0101...") are sequences over {0,1}.  A Python value that  *)
(* may be None is a record [some, val].  The outcome of a call is a record *)
(* [ok, val, err]: the bytes returned, or the exception raised.            *)
(***************************************************************************)
EXTENDS Integers, Sequences, FiniteSets, TLC

(***************************************************************************)
(* 1. Tables (des_core.py, section "Custom Boxes")                         *)
(***************************************************************************)
P_BOX ==
    << 16, 7, 20, 21, 29, 12, 28, 17,
       1, 15, 23, 26, 5, 18, 31, 10,
       2, 8, 24, 14, 32, 27, 3, 9,
       19, 13, 30, 6, 22, 11, 4, 25 >>

E_BOX ==
    << 32, 1, 2, 3, 4, 5,
       4, 5, 6, 7, 8, 9,
       8, 9, 10, 11, 12, 13,
       12, 13, 14, 15, 16, 17,
       16, 17, 18, 19, 20, 21,
       20, 21, 22, 23, 24, 25,
       24, 25, 26, 27, 28, 29,
       28, 29, 30, 31, 32, 1 >>

S_BOXES ==
    << << 14, 4, 13, 1, 2, 15, 11, 8, 3, 10, 6, 12, 5, 9, 0, 7,
          0, 15, 7, 4, 14, 2, 13, 1, 10, 6, 12, 11, 9, 5, 3, 8,
          4, 1, 14, 8, 13, 6, 2, 11, 15, 12, 9, 7, 3, 10, 5, 0,
          15, 12, 8, 2, 4, 9, 1, 7, 5, 11, 3, 14, 10, 0, 6, 13 >>,
       << 15, 1, 8, 14, 6, 11, 3, 4, 9, 7, 2, 13, 12, 0, 5, 10,
          3, 13, 4, 7, 15, 2, 8, 14, 12, 0, 1, 10, 6, 9, 11, 5,
          0, 14, 7, 11, 10, 4, 13, 1, 5, 8, 12, 6, 9, 3, 2, 15,
          13, 8, 10, 1, 3, 15, 4, 2, 11, 6, 7, 12, 0, 5, 14, 9 >>,
       << 10, 0, 9, 14, 6, 3, 15, 5, 1, 13, 12, 7, 11, 4, 2, 8,
          13, 7, 0, 9, 3, 4, 6, 10, 2, 8, 5, 14, 12, 11, 15, 1,
          13, 6, 4, 9, 8, 15, 3, 0, 11, 1, 2, 12, 5, 10, 14, 7,
          1, 10, 13, 0, 6, 9, 8, 7, 4, 15, 14, 3, 11, 5, 2, 12 >>,
       << 7, 13, 14, 3, 0, 6, 9, 10, 1, 2, 8, 5, 11, 12, 4, 15,
          13, 8, 11, 5, 6, 15, 0, 3, 4, 7, 2, 12, 1, 10, 14, 9,
          10, 6, 9, 0, 12, 11, 7, 13, 15, 1, 3, 14, 5, 2, 8, 4,
          3, 15, 0, 6, 10, 1, 13, 8, 9, 4, 5, 11, 12, 7, 2, 14 >>,
       << 2, 12, 4, 1, 7, 10, 11, 6, 8, 5, 3, 15, 13, 0, 14, 9,
          14, 11, 2, 12, 4, 7, 13, 1, 5, 0, 15, 10, 3, 9, 8, 6,
          4, 2, 1, 11, 10, 13, 7, 8, 15, 9, 12, 5, 6, 3, 0, 14,
          11, 8, 12, 7, 1, 14, 2, 13, 6, 15, 0, 9, 10, 4, 5, 3 >>,
       << 12, 1, 10, 15, 9, 2, 6, 8, 0, 13, 3, 4, 14, 7, 5, 11,
          10, 15, 4, 2, 7, 12, 9, 5, 6, 1, 13, 14, 0, 11, 3, 8,
          9, 14, 15, 5, 2, 8, 12, 3, 7, 0, 4, 10, 1, 13, 11, 6,
          4, 3, 2, 12, 9, 5, 15, 10, 11, 14, 1, 7, 6, 0, 8, 13 >>,
       << 4, 11, 2, 14, 15, 0, 8, 13, 3, 12, 9, 7, 5, 10, 6, 1,
          13, 0, 11, 7, 4, 9, 1, 10, 14, 3, 5, 12, 2, 15, 8, 6,
          1, 4, 11, 13, 12, 3, 7, 14, 10, 15, 6, 8, 0, 5, 9, 2,
          6, 11, 13, 8, 1, 4, 10, 7, 9, 5, 0, 15, 14, 2, 3, 12 >>,
       << 13, 2, 8, 4, 6, 15, 11, 1, 10, 9, 3, 14, 5, 0, 12, 7,
          1, 15, 13, 8, 10, 3, 7, 4, 12, 5, 6, 11, 0, 14, 9, 2,
          7, 11, 4, 1, 9, 12, 14, 2, 0, 6, 10, 13, 15, 3, 5, 8,
          2, 1, 14, 7, 4, 10, 8, 13, 15, 12, 9, 0, 3, 5, 6, 11 >> >>

PC_1 ==
    << 57, 49, 41, 33, 25, 17, 9,
       1, 58, 50, 42, 34, 26, 18,
       10, 2, 59, 51, 43, 35, 27,
       19, 11, 3, 60, 52, 44, 36,
       63, 55, 47, 39, 31, 23, 15,
       7, 62, 54, 46, 38, 30, 22,
       14, 6, 61, 53, 45, 37, 29,
       21, 13, 5, 28, 20, 12, 4 >>

PC_2 ==
    << 14, 17, 11, 24, 1, 5,
       3, 28, 15, 6, 21, 10,
       23, 19, 12, 4, 26, 8,
       16, 7, 27, 20, 13, 2,
       41, 52, 31, 37, 47, 55,
       30, 40, 51, 45, 33, 48,
       44, 49, 39, 56, 34, 53,
       46, 42, 50, 36, 29, 32 >>

ROTATIONS ==
    << 1, 1, 2, 2, 2, 2, 2, 2, 1, 2, 2, 2, 2, 2, 2, 1 >>

(***************************************************************************)
(* 2. Helpers                                                              *)
(***************************************************************************)
\* Weights of the eight bits of a byte, most significant first (f'{b:08b}').
BitWeight == << 128, 64, 32, 16, 8, 4, 2, 1 >>

\* bytes_to_bit_string: every byte as 8 binary digits, concatenated.
bytes_to_bit_string(data) ==
    [i \in 1..(8 * Len(data)) |->
        (data[((i - 1) \div 8) + 1] \div BitWeight[((i - 1) % 8) + 1]) % 2]

\* bit_string_to_bytes: the string is right-filled with '0' to a multiple of
\* 8 digits, then every 8 digits are read as one base-2 byte.
bit_string_to_bytes(bit_string) ==
    LET n == (Len(bit_string) + 7) \div 8
        bit(k) == IF k <= Len(bit_string) THEN bit_string[k] ELSE 0
    IN  [i \in 1..n |->
            128 * bit(8 * i - 7) + 64 * bit(8 * i - 6) + 32 * bit(8 * i - 5)
          + 16 * bit(8 * i - 4) + 8 * bit(8 * i - 3) + 4 * bit(8 * i - 2)
          + 2 * bit(8 * i - 1) + bit(8 * i)]

\* rotate_left: bit_string[n:] + bit_string[:n] with n reduced modulo the length.
rotate_left(bit_string, n) ==
    LET len == Len(bit_string)
        m   == n % len
    IN  [i \in 1..len |-> bit_string[((i - 1 + m) % len) + 1]]

\* _permute: the digits of data_str picked in the order the table names them.
_permute(data_str, table) ==
    [i \in 1..Len(table) |-> data_str[table[i]]]

\* f'{int(a,2) ^ int(b,2):0<w>b}' for two digit strings of w digits each: the
\* exclusive-or of the two numbers, written with w digits.
XorBits(a, b) ==
    [i \in 1..Len(a) |-> (a[i] + b[i]) % 2]

\* f'{s_val:04b}'
Nibble(s_val) ==
    << (s_val \div 8) % 2, (s_val \div 4) % 2, (s_val \div 2) % 2, s_val % 2 >>

(***************************************************************************)
(* 3. The DES class                                                        *)
(***************************************************************************)
None == [some |-> FALSE, val |-> << >>]
Some(v) == [some |-> TRUE, val |-> v]

\* Python truthiness of an optional bytes value: None and b"" are false.
Truthy(o) == o.some /\ o.val # << >>

Ok(v)    == [ok |-> TRUE,  val |-> v,    err |-> ""]
Raise(e) == [ok |-> FALSE, val |-> << >>, err |-> e]

\* key.ljust(8, b'\x00') for a short key, key[:8] for a long one.
NormalizeKey(key) ==
    IF Len(key) < 8 THEN key \o [i \in 1..(8 - Len(key)) |-> 0]
    ELSE IF Len(key) > 8 THEN SubSeq(key, 1, 8)
    ELSE key

\* The loop of _generate_subkeys from round i on: C and D are the halves as
\* rotated so far (the rotation is cumulative).
RECURSIVE SubkeysFrom(_, _, _, _)
SubkeysFrom(C, D, i, rounds) ==
    IF i >= rounds THEN << >>
    ELSE LET rot == ROTATIONS[(i % Len(ROTATIONS)) + 1]
             C1  == rotate_left(C, rot)
             D1  == rotate_left(D, rot)
         IN  << _permute(C1 \o D1, PC_2) >> \o SubkeysFrom(C1, D1, i + 1, rounds)

_generate_subkeys(key, rounds) ==
    LET key_str == bytes_to_bit_string(key)
        pc1_key == _permute(key_str, PC_1)
    IN  SubkeysFrom(SubSeq(pc1_key, 1, 28), SubSeq(pc1_key, 29, 56), 0, rounds)

\* DES.__init__: every parameter is stored as given; only the key is brought
\* to 8 bytes.  The mode argument is accepted and dropped.
DES(key, block_size, rounds, keylen, iv) ==
    [ block_size |-> block_size,
      rounds     |-> rounds,
      keylen     |-> keylen,
      iv         |-> iv,
      key        |-> NormalizeKey(key),
      subkeys    |-> _generate_subkeys(NormalizeKey(key), rounds) ]

\* One S-box lookup: the outer two digits of the 6-digit chunk give the row,
\* the inner four the column.
SBoxOut(x, i) ==
    LET o   == 6 * i
        row == 2 * x[o + 1] + x[o + 6]
        col == 8 * x[o + 2] + 4 * x[o + 3] + 2 * x[o + 4] + x[o + 5]
    IN  Nibble(S_BOXES[i + 1][row * 16 + col + 1])

\* _feistel_function.  Its three raise statements guard conditions that the
\* tables exclude (E_BOX has 48 entries, every chunk has 6 digits, every
\* S-box has 64 entries).
_feistel_function(R, K) ==
    LET expanded_R   == _permute(R, E_BOX)
        xor_result   == XorBits(expanded_R, K)
        s_box_output == SBoxOut(xor_result, 0) \o SBoxOut(xor_result, 1)
                     \o SBoxOut(xor_result, 2) \o SBoxOut(xor_result, 3)
                     \o SBoxOut(xor_result, 4) \o SBoxOut(xor_result, 5)
                     \o SBoxOut(xor_result, 6) \o SBoxOut(xor_result, 7)
    IN  _permute(s_box_output, P_BOX)

\* The round loop of _process_block from round i on; the value is R + L.
RECURSIVE FeistelRounds(_, _, _, _, _)
FeistelRounds(L, R, keys, i, rounds) ==
    IF i >= rounds THEN R \o L
    ELSE FeistelRounds(R, XorBits(L, _feistel_function(R, keys[i + 1])),
                       keys, i + 1, rounds)

\* The sequence in its own order: no reversal.
SameOrder(s) == s

\* subkeys[::-1]
Reversed(s) == [i \in 1..Len(s) |-> s[Len(s) + 1 - i]]

_process_block(des, block, decrypt_mode) ==
    IF Len(block) # 8 THEN Raise("ValueError: Invalid block size")
    ELSE LET block_str == bytes_to_bit_string(block)
             keys      == IF decrypt_mode THEN Reversed(des.subkeys) ELSE des.subkeys
         IN  Ok(bit_string_to_bytes(
                 FeistelRounds(SubSeq(block_str, 1, 32), SubSeq(block_str, 33, 64),
                               keys, 0, des.rounds)))

encrypt_block(des, block) == _process_block(des, block, FALSE)

decrypt_block(des, block) == _process_block(des, block, TRUE)

(***************************************************************************)
(* 4. Padding (modes.py)                                                   *)
(***************************************************************************)
Repeat(b, n) == [i \in 1..n |-> b]

\* pad, for 1 <= block_size <= 255 (bytes([padding_len]) takes no other value).
\* pad with the remainder taken once more: no padding for a whole number of
\* blocks.
pad_NoFullBlock(data, block_size) ==
    LET padding_len == (block_size - (Len(data) % block_size)) % block_size
    IN  data \o [i \in 1..padding_len |-> padding_len]

pad(data, block_size) ==
    LET padding_len0 == block_size - (Len(data) % block_size)
        padding_len  == IF padding_len0 = 0 THEN block_size ELSE padding_len0
    IN  data \o Repeat(padding_len, padding_len)

\* unpad that strips only when all of the last padding_len bytes hold the
\* padding length.
unpad_Strict(data, block_size) ==
    IF data = << >> THEN << >>
    ELSE LET padding_len == data[Len(data)]
         IN  IF padding_len < 1 \/ padding_len > block_size \/ padding_len > Len(data)
             THEN data
             ELSE IF \E i \in (Len(data) - padding_len + 1)..Len(data) :
                        data[i] # padding_len
             THEN data
             ELSE SubSeq(data, 1, Len(data) - padding_len)

unpad(data, block_size) ==
    IF data = << >> THEN << >>
    ELSE LET padding_len == data[Len(data)]
         IN  IF padding_len < 1 \/ padding_len > block_size \/ padding_len > Len(data)
             THEN data
             ELSE SubSeq(data, 1, Len(data) - padding_len)

(***************************************************************************)
(* 5. Modes of operation (modes.py)                                        *)
(***************************************************************************)
\* _BaseMode.__init__ and set_des_engine: des is the engine or None; the block
\* width and the IV are read from the engine, with no check on either.
_BaseMode(kind, des) ==
    IF des.some
    THEN [ kind |-> kind, des |-> des,
           block_size_bytes |-> des.val.block_size \div 8,
           iv |-> des.val.iv ]
    ELSE [ kind |-> kind, des |-> des, block_size_bytes |-> 0, iv |-> None ]

set_des_engine(m, des) ==
    [ kind |-> m.kind, des |-> des,
      block_size_bytes |-> des.val.block_size \div 8,
      iv |-> des.val.iv ]

Min(a, b) == IF a < b THEN a ELSE b

\* data[i:i+n] for i in range(0, len(data), n): the last block may be short.
_get_blocks(data, n) ==
    [k \in 1..((Len(data) + n - 1) \div n) |->
        SubSeq(data, (k - 1) * n + 1, Min(k * n, Len(data)))]

\* a ^ b on two bytes.
XorByte(a, b) ==
      128 * (((a \div 128) + (b \div 128)) % 2) + 64 * (((a \div 64) + (b \div 64)) % 2)
    + 32 * (((a \div 32) + (b \div 32)) % 2)    + 16 * (((a \div 16) + (b \div 16)) % 2)
    + 8 * (((a \div 8) + (b \div 8)) % 2)       + 4 * (((a \div 4) + (b \div 4)) % 2)
    + 2 * (((a \div 2) + (b \div 2)) % 2)       + ((a + b) % 2)

\* bytes(p ^ c for p, c in zip(a, b)): zip stops at the shorter operand.
XorBytes(a, b) == [i \in 1..Min(Len(a), Len(b)) |-> XorByte(a[i], b[i])]

\* The checks every encrypt and decrypt of a mode starts with.
NoEngine == Raise("ValueError: DES engine not set")
NoIV(kind) == Raise("ValueError: IV must be set for " \o kind \o " mode")
NoBlockSize == Raise("ValueError: DES engine or block size not set")
\* pad(data, 0) divides by zero.
ZeroDiv == Raise("ZeroDivisionError")

\* [f(b) for b in blocks] joined, for f one of the two block primitives; the
\* first block that raises ends the call.
RECURSIVE ECBLoop(_, _, _, _, _)
ECBLoop(des, blocks, i, decrypt_mode, acc) ==
    IF i > Len(blocks) THEN Ok(acc)
    ELSE LET r == _process_block(des, blocks[i], decrypt_mode)
         IN  IF ~r.ok THEN r
             ELSE ECBLoop(des, blocks, i + 1, decrypt_mode, acc \o r.val)

ECB_encrypt(m, plaintext) ==
    IF ~m.des.some THEN NoEngine
    ELSE IF m.block_size_bytes = 0 THEN ZeroDiv
    ELSE ECBLoop(m.des.val, _get_blocks(pad(plaintext, m.block_size_bytes),
                                        m.block_size_bytes), 1, FALSE, << >>)

\* unpad applied to the joined blocks of a loop that did not raise.
Unpadded(r, block_size) == IF r.ok THEN Ok(unpad(r.val, block_size)) ELSE r

ECB_decrypt(m, ciphertext) ==
    IF ~m.des.some THEN NoEngine
    ELSE IF m.block_size_bytes = 0 THEN NoBlockSize
    ELSE Unpadded(ECBLoop(m.des.val, _get_blocks(ciphertext, m.block_size_bytes),
                          1, TRUE, << >>), m.block_size_bytes)

RECURSIVE CBCEncLoop(_, _, _, _, _)
CBCEncLoop(des, blocks, i, previous_block, acc) ==
    IF i > Len(blocks) THEN Ok(acc)
    ELSE LET xored == XorBytes(blocks[i], previous_block)
             r     == encrypt_block(des, xored)
         IN  IF ~r.ok THEN r
             ELSE CBCEncLoop(des, blocks, i + 1, r.val, acc \o r.val)

CBC_encrypt(m, plaintext) ==
    IF ~m.des.some THEN NoEngine
    ELSE IF ~Truthy(m.iv) THEN NoIV("CBC")
    ELSE IF m.block_size_bytes = 0 THEN ZeroDiv
    ELSE CBCEncLoop(m.des.val, _get_blocks(pad(plaintext, m.block_size_bytes),
                                           m.block_size_bytes), 1, m.iv.val, << >>)

RECURSIVE CBCDecLoop(_, _, _, _, _)
CBCDecLoop(des, blocks, i, previous_block, acc) ==
    IF i > Len(blocks) THEN Ok(acc)
    ELSE LET r == decrypt_block(des, blocks[i])
         IN  IF ~r.ok THEN r
             ELSE CBCDecLoop(des, blocks, i + 1, blocks[i],
                             acc \o XorBytes(r.val, previous_block))

\* CBC.decrypt returning the joined blocks as they are, padding included.
CBC_decrypt_NoUnpad(m, ciphertext) ==
    IF ~m.des.some THEN NoEngine
    ELSE IF ~Truthy(m.iv) THEN NoIV("CBC")
    ELSE IF m.block_size_bytes = 0 THEN NoBlockSize
    ELSE CBCDecLoop(m.des.val, _get_blocks(ciphertext, m.block_size_bytes),
                    1, m.iv.val, << >>)

CBC_decrypt(m, ciphertext) ==
    IF ~m.des.some THEN NoEngine
    ELSE IF ~Truthy(m.iv) THEN NoIV("CBC")
    ELSE IF m.block_size_bytes = 0 THEN NoBlockSize
    ELSE Unpadded(CBCDecLoop(m.des.val, _get_blocks(ciphertext, m.block_size_bytes),
                             1, m.iv.val, << >>), m.block_size_bytes)

RECURSIVE CFBEncLoop(_, _, _, _, _)
CFBEncLoop(des, blocks, i, prev_cipher, acc) ==
    IF i > Len(blocks) THEN Ok(acc)
    ELSE LET encrypted_iv == encrypt_block(des, prev_cipher)
             cipher_block == XorBytes(blocks[i], encrypted_iv.val)
         IN  IF ~encrypted_iv.ok THEN encrypted_iv
             ELSE CFBEncLoop(des, blocks, i + 1, cipher_block, acc \o cipher_block)

CFB_encrypt(m, plaintext) ==
    IF ~m.des.some THEN NoEngine
    ELSE IF ~Truthy(m.iv) THEN NoIV("CFB")
    ELSE IF m.block_size_bytes = 0 THEN ZeroDiv
    ELSE CFBEncLoop(m.des.val, _get_blocks(pad(plaintext, m.block_size_bytes),
                                           m.block_size_bytes), 1, m.iv.val, << >>)

RECURSIVE CFBDecLoop(_, _, _, _, _)
CFBDecLoop(des, blocks, i, prev_cipher, acc) ==
    IF i > Len(blocks) THEN Ok(acc)
    ELSE LET encrypted_iv == encrypt_block(des, prev_cipher)
         IN  IF ~encrypted_iv.ok THEN encrypted_iv
             ELSE CFBDecLoop(des, blocks, i + 1, blocks[i],
                             acc \o XorBytes(blocks[i], encrypted_iv.val))

CFB_decrypt(m, ciphertext) ==
    IF ~m.des.some THEN NoEngine
    ELSE IF ~Truthy(m.iv) THEN NoIV("CFB")
    ELSE IF m.block_size_bytes = 0 THEN NoBlockSize
    ELSE Unpadded(CFBDecLoop(m.des.val, _get_blocks(ciphertext, m.block_size_bytes),
                             1, m.iv.val, << >>), m.block_size_bytes)

RECURSIVE OFBLoop(_, _, _, _, _)
OFBLoop(des, blocks, i, feedback, acc) ==
    IF i > Len(blocks) THEN Ok(acc)
    ELSE LET output_block == encrypt_block(des, feedback)
         IN  IF ~output_block.ok THEN output_block
             ELSE OFBLoop(des, blocks, i + 1, output_block.val,
                          acc \o XorBytes(blocks[i], output_block.val))

OFB_encrypt(m, plaintext) ==
    IF ~m.des.some THEN NoEngine
    ELSE IF ~Truthy(m.iv) THEN NoIV("OFB")
    ELSE IF m.block_size_bytes = 0 THEN ZeroDiv
    ELSE OFBLoop(m.des.val, _get_blocks(pad(plaintext, m.block_size_bytes),
                                        m.block_size_bytes), 1, m.iv.val, << >>)

\* "OFB decryption same as encryption": the ciphertext goes through encrypt,
\* padding included, and nothing is stripped.
OFB_decrypt(m, ciphertext) == OFB_encrypt(m, ciphertext)

\* A Python int too wide for a TLC integer is kept as its base-256 digits,
\* most significant first.  int.from_bytes(iv, 'big') is then iv itself.
int_from_bytes(b) == b

RECURSIVE StripZeros(_)
StripZeros(c) ==
    IF c # << >> /\ c[1] = 0 THEN StripZeros(Tail(c)) ELSE c

\* counter += 1
RECURSIVE Increment(_)
Increment(c) ==
    IF c = << >> THEN << 1 >>
    ELSE IF c[Len(c)] < 255 THEN [c EXCEPT ![Len(c)] = @ + 1]
    ELSE Increment(SubSeq(c, 1, Len(c) - 1)) \o << 0 >>

\* counter.to_bytes(length, 'big'): OverflowError when the number needs more
\* than length bytes.
to_bytes(c, length) ==
    LET digits == StripZeros(c)
    IN  IF Len(digits) > length THEN Raise("OverflowError: int too big to convert")
        ELSE Ok(Repeat(0, length - Len(digits)) \o digits)

RECURSIVE CTRLoop(_, _, _, _, _, _)
CTRLoop(des, blocks, i, counter, block_len, acc) ==
    IF i > Len(blocks) THEN Ok(acc)
    ELSE LET counter_block == to_bytes(counter, block_len)
             output_block  == encrypt_block(des, counter_block.val)
         IN  IF ~counter_block.ok THEN counter_block
             ELSE IF ~output_block.ok THEN output_block
             ELSE CTRLoop(des, blocks, i + 1, Increment(counter), block_len,
                          acc \o XorBytes(blocks[i], output_block.val))

CTR_encrypt(m, plaintext) ==
    IF ~m.des.some THEN NoEngine
    ELSE IF ~Truthy(m.iv) THEN NoIV("CTR")
    ELSE IF m.block_size_bytes = 0 THEN ZeroDiv
    ELSE CTRLoop(m.des.val, _get_blocks(pad(plaintext, m.block_size_bytes),
                                        m.block_size_bytes), 1,
                 int_from_bytes(m.iv.val), m.block_size_bytes, << >>)

\* "CTR decryption same as encryption"
CTR_decrypt(m, ciphertext) == CTR_encrypt(m, ciphertext)

\* mode.encrypt / mode.decrypt, dispatched on the class of the instance.
ModeEncrypt(m, plaintext) ==
    CASE m.kind = "ECB" -> ECB_encrypt(m, plaintext)
      [] m.kind = "CBC" -> CBC_encrypt(m, plaintext)
      [] m.kind = "CFB" -> CFB_encrypt(m, plaintext)
      [] m.kind = "OFB" -> OFB_encrypt(m, plaintext)
      [] m.kind = "CTR" -> CTR_encrypt(m, plaintext)

ModeDecrypt(m, ciphertext) ==
    CASE m.kind = "ECB" -> ECB_decrypt(m, ciphertext)
      [] m.kind = "CBC" -> CBC_decrypt(m, ciphertext)
      [] m.kind = "CFB" -> CFB_decrypt(m, ciphertext)
      [] m.kind = "OFB" -> OFB_decrypt(m, ciphertext)
      [] m.kind = "CTR" -> CTR_decrypt(m, ciphertext)

\* The engine after _process_block: the method binds locals only (bits, L, R,
\* new_R, and keys, which is self.subkeys or a reversed copy of it) and
\* assigns no attribute of self.
EngineAfterBlock(self, block, encrypt) == self

\* A mode method that left its chaining register in self.iv.
ModeAfterCall_KeepsRegister(self, data) ==
    [self EXCEPT !.iv = Some(SubSeq(data, Len(data) - Min(Len(data), 8) + 1,
                                    Len(data)))]

\* The mode after encrypt or decrypt: previous_block, feedback, output and
\* counter are locals initialised from self.iv and rebound per block; neither
\* self.iv nor self.des nor self.block_size_bytes is assigned.
ModeAfterCall(self, data) == self

(***************************************************************************)
(* 6. DES.encrypt / DES.decrypt (des_core.py): base64 of the reversed data *)
(***************************************************************************)
\* "ABC...XYZabc...xyz0123456789+/" as byte values, indexed by sextet + 1.
B64Alphabet ==
    [i \in 1..64 |->
        IF i <= 26 THEN 64 + i
        ELSE IF i <= 52 THEN 70 + i
        ELSE IF i <= 62 THEN i - 5
        ELSE IF i = 63 THEN 43 ELSE 47]

B64Pad == 61

\* b64encode: three bytes become four characters; a last group of one or two
\* bytes is filled with '='.
RECURSIVE b64encode(_)
b64encode(data) ==
    IF data = << >> THEN << >>
    ELSE LET b1 == data[1]
             b2 == IF Len(data) >= 2 THEN data[2] ELSE 0
             b3 == IF Len(data) >= 3 THEN data[3] ELSE 0
             c1 == B64Alphabet[(b1 \div 4) + 1]
             c2 == B64Alphabet[((b1 % 4) * 16 + (b2 \div 16)) + 1]
             c3 == B64Alphabet[((b2 % 16) * 4 + (b3 \div 64)) + 1]
             c4 == B64Alphabet[(b3 % 64) + 1]
         IN  IF Len(data) = 1 THEN << c1, c2, B64Pad, B64Pad >>
             ELSE IF Len(data) = 2 THEN << c1, c2, c3, B64Pad >>
             ELSE << c1, c2, c3, c4 >> \o b64encode(SubSeq(data, 4, Len(data)))

\* The sextet a character stands for, 64 for a character outside the alphabet.
B64Value(ch) ==
    IF ch >= 65 /\ ch <= 90 THEN ch - 65
    ELSE IF ch >= 97 /\ ch <= 122 THEN ch - 71
    ELSE IF ch >= 48 /\ ch <= 57 THEN ch + 4
    ELSE IF ch = 43 THEN 62
    ELSE IF ch = 47 THEN 63
    ELSE 64

\* b64decode (validate=False): characters outside the alphabet are skipped; a
\* pad sequence that completes a group ends the input; an incomplete last
\* group raises binascii.Error.
RECURSIVE B64DecodeLoop(_, _, _, _, _, _)
B64DecodeLoop(s, i, quad_pos, leftchar, pads, acc) ==
    IF i > Len(s)
    THEN IF quad_pos = 0 THEN Ok(acc)
         ELSE IF quad_pos = 1 THEN Raise("binascii.Error: Invalid base64-encoded string")
         ELSE Raise("binascii.Error: Incorrect padding")
    ELSE IF s[i] = B64Pad
    THEN IF quad_pos >= 2 /\ quad_pos + pads + 1 >= 4 THEN Ok(acc)
         ELSE B64DecodeLoop(s, i + 1, quad_pos, leftchar,
                            IF quad_pos >= 2 THEN pads + 1 ELSE pads, acc)
    ELSE LET v == B64Value(s[i])
         IN  IF v >= 64 THEN B64DecodeLoop(s, i + 1, quad_pos, leftchar, pads, acc)
             ELSE IF quad_pos = 0 THEN B64DecodeLoop(s, i + 1, 1, v, 0, acc)
             ELSE IF quad_pos = 1
             THEN B64DecodeLoop(s, i + 1, 2, v % 16, 0,
                                Append(acc, leftchar * 4 + (v \div 16)))
             ELSE IF quad_pos = 2
             THEN B64DecodeLoop(s, i + 1, 3, v % 4, 0,
                                Append(acc, leftchar * 16 + (v \div 4)))
             ELSE B64DecodeLoop(s, i + 1, 0, 0, 0, Append(acc, leftchar * 64 + v))

b64decode(s) == B64DecodeLoop(s, 1, 0, 0, 0, << >>)

\* DES.encrypt without the reversal.
DES_encrypt_NoReverse(des, plaintext) == Ok(b64encode(plaintext))

\* DES.encrypt: b64encode(plaintext[::-1]); no block is ever processed.
DES_encrypt(des, plaintext) == Ok(b64encode(Reversed(plaintext)))

\* DES.decrypt: b64decode(ciphertext)[::-1]
DES_decrypt(des, ciphertext) ==
    LET d == b64decode(ciphertext)
    IN  IF d.ok THEN Ok(Reversed(d.val)) ELSE d

(***************************************************************************)
(* 7. Inputs                                                               *)
(***************************************************************************)
\* The longest plaintext a caller passes.
MaxLen == 9

\* b"MYSECRET", b"Ali" (shorter than 8 bytes), b"AliKey1234567890" (longer)
KeySecret == << 77, 89, 83, 69, 67, 82, 69, 84 >>
KeyShort  == << 65, 108, 105 >>
KeyLong   == << 65, 108, 105, 75, 101, 121, 49, 50, 51, 52, 53, 54, 55, 56, 57, 48 >>

\* testsuite.py: "AliKey12345678901234567890"[: key_length // 8]
HarnessKey(key_length) ==
    SubSeq(KeyLong \o << 49, 50, 51, 52, 53, 54, 55, 56, 57, 48 >>, 1, key_length \div 8)

\* testsuite.py: "?" * (block_size // 8)
HarnessIV(block_size) == Some(Repeat(63, block_size \div 8))

\* b"12345678", the all-ones IV, and IVs of the wrong width
IVDigits == << 49, 50, 51, 52, 53, 54, 55, 56 >>
IVOnes   == Repeat(255, 8)
IVs      == { None, Some(<< >>), Some(Repeat(63, 4)), Some(IVDigits), Some(IVOnes),
              Some(Repeat(63, 16)) }

ModeNames == { "ECB", "CBC", "CFB", "OFB", "CTR" }
IVModes   == { "CBC", "CFB", "OFB", "CTR" }

\* b"HelloAliAkbarDES!?..." and a text whose prefixes end in bytes that read
\* as a padding length.
TextHello == << 72, 101, 108, 108, 111, 65, 108, 105, 65, 107, 98, 97, 114, 68, 69, 83,
                33, 63, 46, 44, 59, 58, 45, 95 >>
TextPadLike == << 1, 2, 2, 3, 9, 0, 255, 8, 8, 2, 8, 8, 8, 8, 8, 8,
                  8, 1, 7, 7, 7, 7, 7, 7 >>
\* testsuite.py: "HelloAliAkbarDES"
sample_plaintext == SubSeq(TextHello, 1, 16)

Prefixes(text) == { SubSeq(text, 1, n) : n \in 0..MaxLen }
Plaintexts == Prefixes(TextHello) \cup Prefixes(TextPadLike)

\* Ciphertexts a caller passes to decrypt that no encrypt call produced.
Ciphertexts == { << >>, SubSeq(TextHello, 1, 8), SubSeq(TextPadLike, 1, 16),
                 SubSeq(TextHello, 1, 5) }

\* Arguments of pad and unpad: block sizes, and data ending in every kind of
\* last byte after a run of bytes that may or may not equal it.
PadWidths   == { 4, 8, 16 }
LastBytes   == { 0, 1, 2, 3, 4, 7, 8, 9, 16, 17, 255 }
UnpadInputs ==
    { << >> } \cup
    { Repeat(fill, n) \o << k >> : n \in 0..MaxLen, fill \in { 0, 1, 8, 65 },
                                   k \in LastBytes }

\* Blocks for the single-block primitive: 8 bytes, and other lengths.
Blocks == { SubSeq(TextHello, 1, 8), SubSeq(TextPadLike, 1, 8), Repeat(0, 8),
            Repeat(255, 8), IVDigits, << >>, SubSeq(TextHello, 1, 7),
            SubSeq(TextHello, 1, 9) }

(***************************************************************************)
(* 8. State: one engine, one mode instance, and the caller's last call     *)
(***************************************************************************)
VARIABLES
    des,    \* the DES instance, None before it is constructed
    mode,   \* the mode instance, None before it is constructed
    call,   \* the last call made on the instances, "none" before the first
    arg,    \* its bytes argument
    width,  \* its block_size argument (pad and unpad), 0 for the other calls
    res,    \* what it returned or raised
    src,    \* when arg is the result of the call before: that call's argument
    log     \* every call made so far on the instances, oldest first

vars == << des, mode, call, arg, width, res, src, log >>

Init ==
    /\ des = None
    /\ mode = None
    /\ call = "none"
    /\ arg = << >>
    /\ width = 0
    /\ res = Ok(<< >>)
    /\ src = None
    /\ log = << >>

Return(c, a, w, r, s) ==
    /\ call' = c
    /\ arg' = a
    /\ width' = w
    /\ res' = r
    /\ src' = s
    /\ log' = Append(log, [call |-> c, arg |-> a, width |-> w, res |-> r])

\* The result of the last call, when that call was c, succeeded, and did not
\* itself take its argument from the call before it.
ResultOf(c) == IF call = c /\ res.ok /\ ~src.some THEN { res.val } ELSE { }

\* No call has been made yet.  app.py constructs an engine and a mode per
\* request, then makes one call on them; a caller checking a round trip
\* follows that call with the inverse call.
Unused == call = "none"

Caller == << call, arg, width, res, src, log >>

\* des = DES(key, block_size=..., rounds=..., keylen=..., iv=...)
NewEngine(keys, block_sizes, round_counts, keylens, ivs) ==
    /\ des = None
    /\ Unused
    /\ \E key \in keys, block_size \in block_sizes, rounds \in round_counts,
          keylen \in keylens, iv \in ivs :
          des' = Some(DES(key, block_size, rounds, keylen, iv))
    /\ UNCHANGED << mode, Caller >>

\* mode = ECB(des) ... CTR(des), or ECB() ... CTR() with no engine
NewMode(bindings) ==
    /\ mode = None
    /\ Unused
    /\ \E kind \in ModeNames, bound \in bindings :
          /\ bound => des.some
          /\ mode' = Some(_BaseMode(kind, IF bound THEN des ELSE None))
    /\ UNCHANGED << des, Caller >>

\* mode.set_des_engine(des)
SetDesEngine ==
    /\ mode.some
    /\ des.some
    /\ Unused
    /\ mode' = Some(set_des_engine(mode.val, des))
    /\ UNCHANGED << des, Caller >>

\* mode.encrypt(plaintext)
Encrypt ==
    /\ mode.some
    /\ Unused
    /\ \E plaintext \in Plaintexts :
          Return("encrypt", plaintext, 0, ModeEncrypt(mode.val, plaintext), None)
    /\ UNCHANGED << des, mode >>

\* mode.decrypt(ciphertext), of a given ciphertext or of what encrypt returned
Decrypt ==
    /\ mode.some
    /\ \E chained \in (IF Unused THEN BOOLEAN ELSE { TRUE }) :
       \E ciphertext \in (IF chained THEN ResultOf("encrypt") ELSE Ciphertexts) :
          Return("decrypt", ciphertext, 0, ModeDecrypt(mode.val, ciphertext),
                 IF chained THEN Some(arg) ELSE None)
    /\ UNCHANGED << des, mode >>

\* des.encrypt_block(block), of a given block or of what decrypt_block returned
EncryptBlock ==
    /\ des.some
    /\ \E chained \in (IF Unused THEN BOOLEAN ELSE { TRUE }) :
       \E block \in (IF chained THEN ResultOf("decrypt_block") ELSE Blocks) :
          Return("encrypt_block", block, 0, encrypt_block(des.val, block),
                 IF chained THEN Some(arg) ELSE None)
    /\ UNCHANGED << des, mode >>

\* des.decrypt_block(block), of a given block or of what encrypt_block returned
DecryptBlock ==
    /\ des.some
    /\ \E chained \in (IF Unused THEN BOOLEAN ELSE { TRUE }) :
       \E block \in (IF chained THEN ResultOf("encrypt_block") ELSE Blocks) :
          Return("decrypt_block", block, 0, decrypt_block(des.val, block),
                 IF chained THEN Some(arg) ELSE None)
    /\ UNCHANGED << des, mode >>

\* des.encrypt(plaintext)
DesEncrypt ==
    /\ des.some
    /\ Unused
    /\ \E plaintext \in Plaintexts \cup { sample_plaintext } :
          Return("des.encrypt", plaintext, 0, DES_encrypt(des.val, plaintext), None)
    /\ UNCHANGED << des, mode >>

\* des.decrypt(ciphertext), of a given ciphertext or of what des.encrypt returned
DesDecrypt ==
    /\ des.some
    /\ \E chained \in (IF Unused THEN BOOLEAN ELSE { TRUE }) :
       \E ciphertext \in (IF chained THEN ResultOf("des.encrypt") ELSE Ciphertexts) :
          Return("des.decrypt", ciphertext, 0, DES_decrypt(des.val, ciphertext),
                 IF chained THEN Some(arg) ELSE None)
    /\ UNCHANGED << des, mode >>

\* pad(data, block_size)
Pad ==
    /\ Unused
    /\ \E data \in Plaintexts, block_size \in PadWidths :
          Return("pad", data, block_size, Ok(pad(data, block_size)), None)
    /\ UNCHANGED << des, mode >>

\* unpad(data, block_size), of given data or of what pad returned
Unpad ==
    /\ \E chained \in (IF Unused THEN BOOLEAN ELSE { TRUE }) :
       \E data \in (IF chained THEN ResultOf("pad") ELSE UnpadInputs),
          block_size \in (IF chained THEN { width } ELSE PadWidths) :
          Return("unpad", data, block_size, Ok(unpad(data, block_size)),
                 IF chained THEN Some(arg) ELSE None)
    /\ UNCHANGED << des, mode >>

(***************************************************************************)
(* 9. Specifications                                                       *)
(***************************************************************************)
\* The mode layer: an engine, a mode bound to it, encrypt and decrypt.
\* Engines as app.py builds them (64-bit blocks, an 8-byte IV), and engines
\* with another block_size or with an IV that is missing or of another width.
Next ==
    \/ NewEngine({ KeySecret, KeyShort }, { 64 }, { 8, 32 }, { 64 },
                 { Some(IVDigits), Some(IVOnes) })
    \/ NewEngine({ KeySecret }, { 32, 64, 128 }, { 16 }, { 64 }, IVs)
    \/ NewMode(BOOLEAN)
    \/ SetDesEngine
    \/ Encrypt
    \/ Decrypt

Spec == Init /\ [][Next]_vars

\* The single-block primitive, for round counts in and out of [8, 32].
NextBlock ==
    \/ NewEngine({ KeySecret, KeyShort, KeyLong }, { 64 }, { 0, 1, 7, 8, 16, 32, 33 },
                 { 64 }, { None })
    \/ EncryptBlock
    \/ DecryptBlock

SpecBlock == Init /\ [][NextBlock]_vars

\* The loop body of testsuite.py.
NextHarness ==
    \/ NewMode({ FALSE })
    \/ \E block_size \in { 32, 64, 128 }, key_length \in { 32, 64, 128 } :
          /\ mode.some
          /\ NewEngine({ HarnessKey(key_length) }, { block_size }, { 8, 12, 16 },
                       { 64 }, { HarnessIV(block_size) })
    \/ DesEncrypt
    \/ DesDecrypt

SpecHarness == Init /\ [][NextHarness]_vars

\* The two padding functions on their own.
NextPad ==
    \/ Pad
    \/ Unpad

SpecPad == Init /\ [][NextPad]_vars

\* Sequences of calls on one engine and the mode bound to it.  The mode holds
\* a reference to the engine (self.des = des), so both names see what a call
\* leaves in either object.
MaxCalls == 3

\* Arguments of the calls in a sequence: no data, and one block.
CallData == { << >>, SubSeq(TextHello, 1, 8) }

\* mode.encrypt(plaintext), any number of times
CallEncrypt ==
    /\ Len(log) < MaxCalls
    /\ mode.some /\ mode.val.des.some
    /\ \E plaintext \in CallData :
          /\ Return("encrypt", plaintext, 0, ModeEncrypt(mode.val, plaintext), None)
          /\ mode' = Some(ModeAfterCall(mode.val, plaintext))
    /\ des' = mode'.val.des

\* mode.decrypt(ciphertext), any number of times
CallDecrypt ==
    /\ Len(log) < MaxCalls
    /\ mode.some /\ mode.val.des.some
    /\ \E ciphertext \in CallData :
          /\ Return("decrypt", ciphertext, 0, ModeDecrypt(mode.val, ciphertext), None)
          /\ mode' = Some(ModeAfterCall(mode.val, ciphertext))
    /\ des' = mode'.val.des

\* des.encrypt_block(block), any number of times
CallEncryptBlock ==
    /\ Len(log) < MaxCalls
    /\ mode.some /\ mode.val.des.some
    /\ \E block \in CallData :
          /\ Return("encrypt_block", block, 0, encrypt_block(des.val, block), None)
          /\ des' = Some(EngineAfterBlock(des.val, block, TRUE))
    /\ mode' = [mode EXCEPT !.val.des = des']

\* des.decrypt_block(block), any number of times
CallDecryptBlock ==
    /\ Len(log) < MaxCalls
    /\ mode.some /\ mode.val.des.some
    /\ \E block \in CallData :
          /\ Return("decrypt_block", block, 0, decrypt_block(des.val, block), None)
          /\ des' = Some(EngineAfterBlock(des.val, block, FALSE))
    /\ mode' = [mode EXCEPT !.val.des = des']

NextCalls ==
    \/ NewEngine({ KeySecret }, { 64 }, { 8 }, { 64 }, { Some(IVOnes), None })
    \/ NewMode({ TRUE })
    \/ CallEncrypt
    \/ CallDecrypt
    \/ CallEncryptBlock
    \/ CallDecryptBlock

SpecCalls == Init /\ [][NextCalls]_vars


(***************************************************************************)
(* 10. Properties                                                          *)
(***************************************************************************)
\* The mode instance is bound to an engine.
Bound == mode.some /\ mode.val.des.some

\* The mode is bound to an engine with block_size 64 and a round count in
\* [8, 32], and holds an IV of 8 bytes.
WellFormed ==
    /\ Bound
    /\ mode.val.des.val.block_size = 64
    /\ mode.val.des.val.rounds \in 8..32
    /\ mode.val.iv.some
    /\ Len(mode.val.iv.val) = 8

ModeCall == call \in { "encrypt", "decrypt" }

\* C1: on a well-formed ECB, CBC or CFB mode, encrypt succeeds for every
\* plaintext and decrypt of what it returned gives the plaintext back.
RoundTripPadded ==
    (WellFormed /\ mode.val.kind \in { "ECB", "CBC", "CFB" }) =>
        /\ call = "encrypt" => res.ok
        /\ (call = "decrypt" /\ src.some) => res = Ok(src.val)

\* C1 happens: a CBC round trip of a 9-byte plaintext (two blocks, the second
\* chained to the first) under 32 rounds.
RoundTripPaddedSeen ==
    /\ WellFormed
    /\ mode.val.kind = "CBC"
    /\ mode.val.des.val.rounds = 32
    /\ call = "decrypt"
    /\ src.some
    /\ Len(src.val) = 9
    /\ Len(arg) = 16
    /\ res = Ok(src.val)

\* C2: on a well-formed OFB or CTR mode, decrypt of what encrypt returned
\* gives the plaintext back.
RoundTripKeystream ==
    (WellFormed /\ mode.val.kind \in { "OFB", "CTR" }) =>
        ((call = "decrypt" /\ src.some) => res = Ok(src.val))

\* C3: for every engine, decrypt_block inverts encrypt_block and
\* encrypt_block inverts decrypt_block on every 8-byte block.
BlockInversion ==
    /\ (call \in { "encrypt_block", "decrypt_block" } /\ Len(arg) = 8) => res.ok
    /\ (call = "decrypt_block" /\ src.some) => res = Ok(src.val)
    /\ (call = "encrypt_block" /\ src.some) => res = Ok(src.val)

\* C3 happens: a block that 16 rounds changed is restored by decrypt_block.
BlockInversionSeen ==
    /\ des.some
    /\ des.val.rounds = 16
    /\ call = "decrypt_block"
    /\ src.some
    /\ arg # src.val
    /\ res = Ok(src.val)

\* C4: constructing a CBC, CFB, OFB or CTR mode on an engine that carries no
\* IV (None or empty) fails, so no such mode instance exists on which encrypt
\* or decrypt could be called.
MissingIVRejectedAtConstruction ==
    ~(Bound /\ mode.val.kind \in IVModes /\ ~Truthy(mode.val.des.val.iv))

\* C5: every constructed engine has a round count, and a number of subkeys,
\* in [8, 32].
RoundsBounded ==
    des.some => (des.val.rounds \in 8..32 /\ Len(des.val.subkeys) \in 8..32)

\* C6: on an engine constructed with a block_size other than 64, encrypt and
\* decrypt return exactly what the same call returns on the engine built from
\* the same arguments with block_size 64 (so they succeed wherever that call
\* succeeds).
BlockSizeIgnored ==
    (Bound /\ mode.val.des.val.block_size # 64 /\ ModeCall) =>
        LET des64  == [mode.val.des.val EXCEPT !.block_size = 64]
            mode64 == _BaseMode(mode.val.kind, Some(des64))
        IN  res = IF call = "encrypt" THEN ModeEncrypt(mode64, arg)
                  ELSE ModeDecrypt(mode64, arg)

\* The number of padding bytes the claim gives for a plaintext.
PadCount(plaintext) == 8 - (Len(plaintext) % 8)

\* C7: with 8-byte blocks the data split into blocks is the plaintext
\* followed by k bytes of value k, k = 8 - (len mod 8); a ciphertext has
\* 8 * (len div 8 + 1) bytes; ECB encrypts the empty plaintext to one block,
\* which decrypts to the empty plaintext.
PaddingOnEncrypt ==
    (Bound /\ mode.val.block_size_bytes = 8) =>
        /\ call = "encrypt" =>
              /\ pad(arg, mode.val.block_size_bytes)
                    = arg \o Repeat(PadCount(arg), PadCount(arg))
              /\ PadCount(arg) \in 1..8
              /\ res.ok => Len(res.val) = 8 * ((Len(arg) \div 8) + 1)
        /\ (call = "encrypt" /\ mode.val.kind = "ECB") => res.ok
        /\ (call = "encrypt" /\ mode.val.kind = "ECB" /\ arg = << >>)
              => Len(res.val) = 8
        /\ (call = "decrypt" /\ mode.val.kind = "ECB" /\ src = Some(<< >>))
              => res = Ok(<< >>)

\* C7 happens: ECB decrypted the one block that the empty plaintext became.
PaddingOnEncryptSeen ==
    /\ Bound
    /\ mode.val.kind = "ECB"
    /\ mode.val.block_size_bytes = 8
    /\ call = "decrypt"
    /\ src = Some(<< >>)
    /\ Len(arg) = 8
    /\ res = Ok(<< >>)

\* What the claim says unpad(data, 8) returns.
LenientStrip(data) ==
    IF data # << >> /\ data[Len(data)] >= 1 /\ data[Len(data)] <= 8
                    /\ data[Len(data)] <= Len(data)
    THEN SubSeq(data, 1, Len(data) - data[Len(data)])
    ELSE data

\* C8: unpad(D, 8) never raises; it drops the last k bytes when the last byte
\* k is in [1, 8] and at most len(D), whatever the other bytes are, and
\* returns D unchanged otherwise.
LenientUnpad ==
    (call = "unpad" /\ width = 8) => res = Ok(LenientStrip(arg))

\* C8 happens: 3 bytes were dropped from data whose last byte is 3 and whose
\* other bytes are not.
LenientUnpadSeen ==
    /\ call = "unpad"
    /\ width = 8
    /\ Len(arg) = 5
    /\ arg[5] = 3
    /\ arg[4] = 65
    /\ res = Ok(SubSeq(arg, 1, 2))

\* C9: for every parameter combination of the test harness, des.encrypt
\* succeeds and des.decrypt of what it returned gives the plaintext back.
HarnessRoundTrip ==
    /\ call = "des.encrypt" => res.ok
    /\ (call = "des.decrypt" /\ src.some) => res = Ok(src.val)

\* C9 happens: the harness plaintext came back from an engine built with
\* block_size 128, a 4-byte key and 12 rounds.
HarnessRoundTripSeen ==
    /\ des.some
    /\ des.val.block_size = 128
    /\ des.val.rounds = 12
    /\ des.val.key = HarnessKey(32) \o Repeat(0, 4)
    /\ mode.some
    /\ call = "des.decrypt"
    /\ src = Some(sample_plaintext)
    /\ res = Ok(sample_plaintext)

\* C10: on a CBC, CFB, OFB or CTR mode whose IV is not exactly 8 bytes long,
\* no encrypt or decrypt call returns bytes.  It is stated for the calls that
\* process at least one block (every encrypt, and decrypt of data that is not
\* empty), the calls in which the IV is used.
IVWidthEnforced ==
    (Bound /\ mode.val.kind \in IVModes /\ mode.val.iv.some
        /\ Len(mode.val.iv.val) # 8 /\ ModeCall
        /\ (call = "encrypt" \/ arg # << >>)) => ~res.ok

\* The counter value seed + i, computed from the seed and the index alone.
RECURSIVE CounterPlus(_, _)
CounterPlus(seed, i) ==
    IF i = 0 THEN seed ELSE CounterPlus(Increment(seed), i - 1)

\* The 8-byte big-endian encoding of a counter value, modulo 2^64.
Encode64(c) ==
    LET digits == Repeat(0, 8) \o StripZeros(c)
    IN  SubSeq(digits, Len(digits) - 7, Len(digits))

\* Output block i (from 0) that the claim gives for CTR on 8-byte blocks.
DirectBlock(m, data, i) ==
    XorBytes(SubSeq(pad(data, 8), 8 * i + 1, 8 * i + 8),
             encrypt_block(m.des.val,
                           Encode64(CounterPlus(m.iv.val, i))).val)

\* C11: on a well-formed CTR mode, for every 8-byte IV (the largest one
\* included), encrypt succeeds and its output block i is data block i XOR
\* encrypt_block(8-byte big-endian encoding of IV + i), computed from the IV
\* and the index alone.
CTRKeystreamDirect ==
    (WellFormed /\ mode.val.kind = "CTR" /\ call = "encrypt") =>
        /\ res.ok
        /\ Len(res.val) = Len(pad(arg, 8))
        /\ \A i \in 0..((Len(res.val) \div 8) - 1) :
              SubSeq(res.val, 8 * i + 1, 8 * i + 8)
                 = DirectBlock(mode.val, arg, i)

\* No call changed the engine's key, round count or subkeys, or the IV the
\* mode stores.
FrozenStep ==
    (des.some /\ mode.some) =>
        /\ des'.val.key = des.val.key
        /\ des'.val.rounds = des.val.rounds
        /\ des'.val.subkeys = des.val.subkeys
        /\ mode'.val.iv = mode.val.iv
        /\ mode'.val.des = des'

\* The engine holds exactly `rounds` subkeys of 48 bits, those of an engine
\* built afresh from the same key and round count.
SubkeysAsBuilt ==
    des.some =>
        /\ Len(des.val.subkeys) = des.val.rounds
        /\ \A i \in 1..Len(des.val.subkeys) : Len(des.val.subkeys[i]) = 48
        /\ des.val.subkeys
              = DES(des.val.key, 64, des.val.rounds, 64, None).subkeys

\* A call repeated with the same input returned the same output, whatever
\* calls were made in between.
RepeatSame ==
    \A i, j \in 1..Len(log) :
        (log[i].call = log[j].call /\ log[i].arg = log[j].arg)
            => log[i].res = log[j].res

\* C12: across any sequence of encrypt_block, decrypt_block and mode
\* encrypt/decrypt calls, successful or failing, the engine's key, round
\* count and subkeys (exactly `rounds` of them, 48 bits each, those of any
\* engine built from the same key and rounds) and the mode's stored IV do not
\* change, and a repeated call returns what it returned before.
StateFrozen == [](SubkeysAsBuilt /\ RepeatSame) /\ [][FrozenStep]_vars

\* C12 happens: CBC encrypted a block, decrypted in between, and encrypted
\* the same block again with the same result.
StateFrozenSeen ==
    /\ mode.some
    /\ mode.val.kind = "CBC"
    /\ mode.val.iv = Some(IVOnes)
    /\ Len(log) = 3
    /\ log[1].call = "encrypt" /\ log[1].res.ok /\ Len(log[1].arg) = 8
    /\ log[2].call = "decrypt" /\ log[2].res.ok
    /\ log[3] = log[1]

=============================================================================
